---- MODULE Spec2Model ----
(***************************************************************************)
(* Model of the 2D-to-3D aggregation code of analyze_3d.py: the section   *)
(* interpolator _interp_section and the strip-theory sweep analyze_3d.    *)
(*                                                                         *)
(* Numbers.  A float is modelled as an exact rational <<n, d>> with d > 0 *)
(* in lowest terms, or as NaN == <<0, 0>>.  Arithmetic propagates NaN the *)
(* way IEEE arithmetic does (0 * NaN is NaN); comparisons with NaN are    *)
(* false.  Infinities do not occur for the bounded inputs used here.      *)
(***************************************************************************)
EXTENDS Integers, Sequences, FiniteSets, TLC

VARIABLES
    df,     \* the 2-D polar table read from RESULTS_2D_FILE: a sequence of rows
    ties,   \* the order sort_values("Alpha") leaves rows of equal Alpha in: "kept" or "reversed"
    qry,    \* the arguments of the last _interp_section call made on its own
    res,    \* what that call returned
    file2d,            \* RESULTS_2D_FILE: "missing", "empty", "nocols" or "ok" (then holding df)
    N_SPAN_SECTIONS,   \* spanwise stations per semi-wing
    pc,                \* where analyze_3d stands: "idle", "start", "loop", "finish", "done", "raised"
    it,                \* the indices of the eight nested loops, outermost first
    loc,               \* the locals of the last pass through the innermost loop body
    out_rows,          \* the rows appended so far
    csv3d,             \* RESULTS_3D_FILE: <<>> while not written, else <<the rows written>>
    dat,        \* analyze_airfoils: the airfoils whose .dat file exists in AIRFOIL_DIR
    apc,        \* where analyze_airfoils stands: "idle", "re", "alpha", "save", "done", "aborted"
    pos,        \* its loop indices <<airfoil, Re, alpha>>
    results,    \* the rows appended to `results` so far
    log,        \* what became of each point and each (airfoil, Re) pair visited
    tries,      \* what each _single_alpha_call made for the alpha at hand returned
    csv2d,      \* OUTPUT_FILE: <<>> while not written, else <<the rows written>>
    airfoil_list,   \* fetch_airfoils: its argument
    fi,             \* the index of the name its loop is at; 0 outside a run
    cache,          \* the file of each name in AIRFOIL_DIR: "absent", "stored" or "partial"
    nreq,           \* the number of requests.get calls issued for each name
    ret,            \* what the last download_airfoil_dat call returned, <<name, value>>
    airfoil_dict,   \* the dict fetch_airfoils builds
    calls       \* the _interp_section calls made one after another: <<arguments, result>> each

wingvars == <<file2d, N_SPAN_SECTIONS, pc, it, loc, out_rows, csv3d>>

polarvars == <<dat, apc, pos, results, log, tries, csv2d>>

fetchvars == <<airfoil_list, fi, cache, nreq, ret, airfoil_dict>>

vars == <<df, ties, qry, res, wingvars, polarvars, fetchvars, calls>>

----------------------------------------------------------------------------
(* Rational arithmetic with NaN                                            *)

NaN == <<0, 0>>

IsNaN(x) == x[2] = 0

Abs(n) == IF n < 0 THEN -n ELSE n

RECURSIVE GCD(_, _)
GCD(a, b) == IF b = 0 THEN a ELSE GCD(b, a % b)

\* the rational n/d (d # 0) in lowest terms with a positive denominator
Rat(n, d) ==
    LET s == IF d < 0 THEN -1 ELSE 1
        g == GCD(Abs(n), Abs(d))
    IN  <<(s * n) \div g, (s * d) \div g>>

Zero == <<0, 1>>
One == <<1, 1>>

Add(x, y) ==
    IF IsNaN(x) \/ IsNaN(y) THEN NaN
    ELSE LET g == GCD(x[2], y[2])
         IN  Rat(x[1] * (y[2] \div g) + y[1] * (x[2] \div g), (x[2] \div g) * y[2])

Neg(x) == IF IsNaN(x) THEN NaN ELSE <<-x[1], x[2]>>

Sub(x, y) == Add(x, Neg(y))

Mul(x, y) ==
    IF IsNaN(x) \/ IsNaN(y) THEN NaN
    ELSE LET g1 == GCD(Abs(x[1]), y[2])
             g2 == GCD(Abs(y[1]), x[2])
         IN  Rat((x[1] \div g1) * (y[1] \div g2), (x[2] \div g2) * (y[2] \div g1))

\* x / y; every division of the source is guarded against a zero divisor
Div(x, y) ==
    IF IsNaN(x) \/ IsNaN(y) \/ y[1] = 0 THEN NaN
    ELSE Mul(x, Rat(y[2], y[1]))

Lt(x, y) == ~IsNaN(x) /\ ~IsNaN(y) /\ x[1] * y[2] < y[1] * x[2]

Le(x, y) == ~IsNaN(x) /\ ~IsNaN(y) /\ x[1] * y[2] <= y[1] * x[2]

\* float ==, false when either side is NaN
FloatEq(x, y) == ~IsNaN(x) /\ ~IsNaN(y) /\ x = y

IsFinite(x) == ~IsNaN(x)

NaN3 == <<NaN, NaN, NaN>>

----------------------------------------------------------------------------
(* Sequence helpers                                                        *)

Min2(a, b) == IF a < b THEN a ELSE b

\* the column `f` of a frame, in row order
Column(rows, f) == [i \in 1..Len(rows) |-> rows[i][f]]

\* Series.min() / Series.max() of a non-empty column without NaN
SeqMin(xs) == CHOOSE m \in {xs[i] : i \in 1..Len(xs)} : \A i \in 1..Len(xs) : Le(m, xs[i])

SeqMax(xs) == CHOOSE m \in {xs[i] : i \in 1..Len(xs)} : \A i \in 1..Len(xs) : Le(xs[i], m)

\* np.unique: the distinct values of a column as an ascending sequence
RECURSIVE SortedSeq(_)
SortedSeq(S) ==
    IF S = {} THEN <<>>
    ELSE LET m == CHOOSE x \in S : \A y \in S : Le(x, y)
         IN  <<m>> \o SortedSeq(S \ {m})

np_unique(xs) == SortedSeq({xs[i] : i \in 1..Len(xs)})

\* np.searchsorted(a, v), side 'left': the number of entries below v
np_searchsorted(a, v) == Cardinality({i \in 1..Len(a) : Lt(a[i], v)})

\* np.clip(x, lo, hi) == minimum(maximum(x, lo), hi)
np_clip(x, lo, hi) ==
    LET m == IF Lt(x, lo) THEN lo ELSE x
    IN  IF Lt(hi, m) THEN hi ELSE m

\* insertion of a row into an Alpha-sorted frame: after the rows with an equal
\* Alpha when ties are kept, before them when they are reversed
RECURSIVE InsertByAlpha(_, _)
InsertByAlpha(r, rows) ==
    IF rows = <<>> THEN <<r>>
    ELSE IF \/ Lt(r.Alpha, rows[1].Alpha)
            \/ ties = "reversed" /\ FloatEq(r.Alpha, rows[1].Alpha)
         THEN <<r>> \o rows
    ELSE <<rows[1]>> \o InsertByAlpha(r, Tail(rows))

\* DataFrame.sort_values("Alpha") with the default kind "quicksort": ascending;
\* the sort is not stable, so the order of rows with equal Alpha is not fixed
\* by the call.  Two of the orders it may leave are modelled: the input order
\* kept, and the input order reversed.
RECURSIVE sort_values_Alpha(_)
sort_values_Alpha(rows) ==
    IF rows = <<>> THEN <<>>
    ELSE InsertByAlpha(rows[Len(rows)], sort_values_Alpha(SubSeq(rows, 1, Len(rows) - 1)))

\* a step lookup in place of np.interp: the value recorded at the nearest xp at or below x
np_interp_step(x, xp, fp) ==
    LET below == {k \in 1..Len(xp) : Le(xp[k], x)}
    IN  IF below = {} THEN fp[1] ELSE fp[CHOOSE k \in below : \A m \in below : m <= k]

\* np.interp(x, xp, fp) for a finite x and ascending xp (numpy's arr_interp):
\* the end values outside [xp[0], xp[-1]], fp[j] on a hit of xp[j], else
\* slope * (x - xp[j]) + fp[j] on the interval j with xp[j] <= x < xp[j+1],
\* retried from the right end of the interval when that is NaN.
np_interp(x, xp, fp) ==
    LET n == Len(xp)
    IN  IF n = 1 THEN (IF Lt(x, xp[1]) THEN fp[1] ELSE IF Lt(xp[1], x) THEN fp[n] ELSE fp[1])
        ELSE IF Lt(xp[n], x) THEN fp[n]
        ELSE IF Lt(x, xp[1]) THEN fp[1]
        ELSE LET j == CHOOSE k \in 1..n :
                        /\ Le(xp[k], x)
                        /\ \A m \in (k + 1)..n : ~Le(xp[m], x)
             IN  IF j = n THEN fp[j]
                 ELSE IF FloatEq(xp[j], x) THEN fp[j]
                 ELSE LET slope == Div(Sub(fp[j + 1], fp[j]), Sub(xp[j + 1], xp[j]))
                          r1 == Add(Mul(slope, Sub(x, xp[j])), fp[j])
                          r2 == Add(Mul(slope, Sub(x, xp[j + 1])), fp[j + 1])
                      IN  IF ~IsNaN(r1) THEN r1
                          ELSE IF ~IsNaN(r2) THEN r2
                          ELSE IF FloatEq(fp[j], fp[j + 1]) THEN fp[j]
                          ELSE r2

----------------------------------------------------------------------------
(* _interp_section (analyze_3d.py lines 27-65)                             *)

\* the frame taken whole, the airfoil filter forgotten
SubFrame_unfiltered(frame, airfoil) == frame

\* sub = df[df["Airfoil"] == airfoil]
SubFrame(frame, airfoil) == SelectSeq(frame, LAMBDA r : r.Airfoil = airfoil)

\* a bracket that collapses onto the nearest recorded Reynolds number outside
\* the recorded range
ReBracket_clamped(sub, Re) ==
    LET rs == np_unique(Column(sub, "Re"))
        n == Len(rs)
        idx == np_searchsorted(rs, Re)
    IN  IF idx = 0 THEN <<rs[1], rs[1]>>
        ELSE IF idx >= n THEN <<rs[n], rs[n]>>
        ELSE <<rs[idx], rs[idx + 1]>>

\* lines 33-43: the pair (Re_lo, Re_hi) chosen from the recorded Reynolds numbers
ReBracket(sub, Re) ==
    LET rs == np_unique(Column(sub, "Re"))
        n == Len(rs)
        idx == np_searchsorted(rs, Re)
    IN  IF idx = 0 THEN <<rs[1], rs[Min2(1, n - 1) + 1]>>
        ELSE IF idx >= n THEN (IF n = 1 THEN <<rs[1], rs[1]>> ELSE <<rs[n - 1], rs[n]>>)
        ELSE <<rs[idx], rs[idx + 1]>>

\* a straight line through the two rows nearest to x, continued beyond the
\* recorded range
LineThrough(x, xp, fp) ==
    LET n == Len(xp)
        inside == {k \in 1..(n - 1) : Le(xp[k], x)}
        j == IF inside = {} THEN 1 ELSE CHOOSE k \in inside : \A m \in inside : m <= k
    IN  IF n = 1 \/ FloatEq(xp[j], xp[j + 1]) THEN fp[j]
        ELSE Add(fp[j], Mul(Div(Sub(fp[j + 1], fp[j]), Sub(xp[j + 1], xp[j])), Sub(x, xp[j])))

\* interp_at without the clamp of alpha: the polar is extrapolated
interp_at_extrapolating(sub, Rtarget, alpha) ==
    LET dfr == sort_values_Alpha(SelectSeq(sub, LAMBDA r : FloatEq(r.Re, Rtarget)))
    IN  IF dfr = <<>> THEN NaN3
        ELSE LET xp == Column(dfr, "Alpha")
             IN  <<LineThrough(alpha, xp, Column(dfr, "CL")),
                   LineThrough(alpha, xp, Column(dfr, "CD")),
                   LineThrough(alpha, xp, Column(dfr, "CM"))>>

\* lines 45-53: alpha interpolation within the rows recorded at Reynolds Rtarget
interp_at(sub, Rtarget, alpha) ==
    LET dfr == sort_values_Alpha(SelectSeq(sub, LAMBDA r : FloatEq(r.Re, Rtarget)))
    IN  IF dfr = <<>> THEN NaN3
        ELSE LET xp == Column(dfr, "Alpha")
                 a == np_clip(alpha, SeqMin(xp), SeqMax(xp))
             IN  <<np_interp(a, xp, Column(dfr, "CL")),
                   np_interp(a, xp, Column(dfr, "CD")),
                   np_interp(a, xp, Column(dfr, "CM"))>>

\* line 61: t = 0.0 if Re_hi == Re_lo else (Re - Re_lo) / (Re_hi - Re_lo + 1e-12).
\* Recorded Reynolds numbers are those of RE_LIST (2e5, 5e5, 1e6): two distinct
\* ones differ by more than 2^14, where 1e-12 is below half a unit in the last
\* place, so the binary64 sum Re_hi - Re_lo + 1e-12 is Re_hi - Re_lo itself.
BlendT(Re, Re_lo, Re_hi) ==
    IF FloatEq(Re_hi, Re_lo) THEN Zero
    ELSE Div(Sub(Re, Re_lo), Sub(Re_hi, Re_lo))

\* lines 62-64: (1 - t) * lo + t * hi
Blend(t, lo, hi) == Add(Mul(Sub(One, t), lo), Mul(t, hi))

\* the frame with its rows sorted by Alpha in place
TableAfter_sorted_in_place(frame, airfoil) == sort_values_Alpha(frame)

\* the caller's frame after a call of _interp_section: line 28 selects rows into
\* a new frame, and lines 46-52 filter, sort_values (not in place) and read
\* columns; nothing assigns into df
TableAfter(frame, airfoil) == frame

_interp_section(frame, airfoil, Re, alpha) ==
    LET sub == SubFrame(frame, airfoil)
    IN  IF sub = <<>> THEN NaN3
        ELSE LET br == ReBracket(sub, Re)
                 lo == interp_at(sub, br[1], alpha)
                 hi == interp_at(sub, br[2], alpha)
                 t == BlendT(Re, br[1], br[2])
             IN  IF (\A k \in 1..3 : IsNaN(lo[k])) /\ (\A k \in 1..3 : IsNaN(hi[k]))
                 THEN NaN3
                 ELSE <<Blend(t, lo[1], hi[1]), Blend(t, lo[2], hi[2]), Blend(t, lo[3], hi[3])>>

----------------------------------------------------------------------------
(* analyze_3d (analyze_3d.py lines 67-171): setup                          *)

\* lines 11-14, "edit as needed"
RHO == Rat(49, 40)

MU == Rat(181, 10000000)

VEL == <<20, 1>>

q == Mul(Mul(Rat(1, 2), RHO), Mul(VEL, VEL))

\* lines 17-23, "edit as desired": short sweeps.  The spans include the
\* degenerate span 0; the root chords are those whose root Reynolds number
\* RHO * VEL * c_root / MU is 2e5 and 5e5; the root twists include one that
\* is not 0.
WINGSPANS == <<<<0, 1>>, <<2, 1>>>>

ROOT_CHORDS == <<Rat(181, 1225), Rat(181, 490)>>

TAPERS == <<<<1, 1>>, Rat(1, 2)>>

DIHEDRALS == <<<<0, 1>>, <<5, 1>>>>

TWIST_ROOTS == <<<<0, 1>>, <<1, 1>>>>

TWIST_TIPS == <<<<0, 1>>, <<2, 1>>>>

TRIM_ALPHAS == <<<<0, 1>>, <<2, 1>>>>

\* the marker of a ZeroDivisionError raised by a division of Python floats
ZeroDivisionError == <<1, 0>>

\* x / y on Python floats
PyDiv(x, y) == IF y = <<0, 1>> THEN ZeroDivisionError ELSE Div(x, y)

\* np.sum: a NaN entry makes the sum NaN
RECURSIVE np_sum(_)
np_sum(xs) ==
    IF xs = <<>> THEN <<0, 1>>
    ELSE Add(np_sum(SubSeq(xs, 1, Len(xs) - 1)), xs[Len(xs)])

\* np.nansum: NaN entries count as zero
RECURSIVE np_nansum(_)
np_nansum(xs) ==
    IF xs = <<>> THEN <<0, 1>>
    ELSE Add(np_nansum(SubSeq(xs, 1, Len(xs) - 1)),
             IF IsNaN(xs[Len(xs)]) THEN <<0, 1>> ELSE xs[Len(xs)])

\* AR ** 0.68, read off a table of x ** 0.68 to one decimal at the integer
\* nearest to AR (the last entry beyond the table)
Pow068Table == <<10, 16, 21, 26, 30, 34, 38, 41, 45, 48, 51, 54, 57, 60, 63, 66, 69, 71, 74, 77>>

Pow068(AR) ==
    LET n == (2 * AR[1] + AR[2]) \div (2 * AR[2])
    IN  IF n <= 0 THEN <<0, 1>>
        ELSE Rat(Pow068Table[Min2(n, Len(Pow068Table))], 10)

\* np.pi
PI == Rat(22, 7)

\* Decimal places kept by the factors of the induced-drag formula (lines 94 and
\* 129), whose exact quotients leave the 32-bit integers of TLC.
Prec == 1000

\* x to the nearest multiple of 1 / Prec
Round(x) ==
    IF IsNaN(x) THEN NaN
    ELSE Rat((x[1] \div x[2]) * Prec + ((x[1] % x[2]) * Prec + x[2] \div 2) \div x[2], Prec)

RatMax(x, y) == IF Lt(x, y) THEN y ELSE x

\* line 92
S_of(b, c_root, c_tip) == Mul(Mul(b, Rat(1, 2)), Add(c_root, c_tip))

\* line 93 without its guard
AR_unguarded(b, S) == PyDiv(Mul(b, b), S)

\* line 93: AR = b**2 / S if S > 0 else np.nan
AR_of(b, S) == IF Lt(<<0, 1>>, S) THEN PyDiv(Mul(b, b), S) ELSE NaN

\* line 94
e_of(AR) ==
    IF IsFinite(AR)
    THEN Round(RatMax(Rat(65, 100),
                      Sub(Mul(Rat(178, 100), Sub(<<1, 1>>, Mul(Rat(45, 1000), Pow068(AR)))),
                          Rat(64, 100))))
    ELSE Rat(8, 10)

\* line 96: y = np.linspace(0.0, semi, N), indexed from 1 here
linspace0(semi, N) ==
    [i \in 1..N |-> IF N = 1 THEN <<0, 1>> ELSE Mul(semi, Rat(i - 1, N - 1))]

\* line 97 with the sum grouped before the product: (c_root + (c_tip - c_root)) * (y / semi)
chord_of_misgrouped(y, semi, c_root, c_tip) ==
    [i \in 1..Len(y) |->
        IF Lt(<<0, 1>>, semi) THEN Mul(Add(c_root, Sub(c_tip, c_root)), Div(y[i], semi))
        ELSE c_root]

\* line 97
chord_of(y, semi, c_root, c_tip) ==
    [i \in 1..Len(y) |->
        IF Lt(<<0, 1>>, semi) THEN Add(c_root, Mul(Sub(c_tip, c_root), Div(y[i], semi)))
        ELSE c_root]

\* line 102
twist_of(y, semi, twist_root, twist_tip) ==
    [i \in 1..Len(y) |->
        IF Lt(<<0, 1>>, semi) THEN Add(twist_root, Mul(Sub(twist_tip, twist_root), Div(y[i], semi)))
        ELSE <<0, 1>>]

\* line 105: dy = semi / (N - 1) if N > 1 else semi
dy_of(semi, N) == IF N > 1 THEN PyDiv(semi, <<N - 1, 1>>) ELSE semi

\* line 109
Re_of(chord) == Div(Mul(Mul(RHO, VEL), chord), MU)

\* lines 121-122: np.nansum(q * dS * sec)
ForceSum(dS, sec) == np_nansum([i \in 1..Len(dS) |-> Mul(Mul(q, dS[i]), sec[i])])

\* lines 127-128: X / (q * S) if S > 0 else np.nan
Coef(X, S) == IF Lt(<<0, 1>>, S) THEN Div(X, Mul(q, S)) ELSE NaN

\* line 129
CDi_of(CL, AR, e) ==
    IF IsFinite(AR) /\ Lt(<<0, 1>>, AR) /\ Lt(<<0, 1>>, e)
    THEN Div(Round(Mul(CL, CL)), Round(Mul(Round(Mul(PI, AR)), e)))
    ELSE NaN

\* line 130 with a default of zero in place of NaN
CD_defaulting(CDp, CDi) == IF IsFinite(CDp) /\ IsFinite(CDi) THEN Add(CDp, CDi) ELSE <<0, 1>>

\* line 130
CD_of(CDp, CDi) == IF IsFinite(CDp) /\ IsFinite(CDi) THEN Add(CDp, CDi) ELSE NaN

\* line 132
c_mac_of(c_root, taper) ==
    IF Add(<<1, 1>>, taper) # <<0, 1>>
    THEN PyDiv(Mul(Mul(Rat(2, 3), c_root), Add(Add(<<1, 1>>, taper), Mul(taper, taper))),
               Add(<<1, 1>>, taper))
    ELSE NaN

\* line 133: np.nansum((q * dS) * CM_sec * chord_y)
MomentSum(dS, CM_sec, chord_y) ==
    np_nansum([i \in 1..Len(dS) |-> Mul(Mul(Mul(q, dS[i]), CM_sec[i]), chord_y[i])])

\* line 135
Cm_of(M, S, c_mac) ==
    IF Lt(<<0, 1>>, S) /\ IsFinite(c_mac) /\ Lt(<<0, 1>>, c_mac)
    THEN Div(M, Mul(Mul(q, S), c_mac))
    ELSE NaN

----------------------------------------------------------------------------
(* analyze_3d: one pass through the innermost loop body (lines 88-158)     *)

\* the locals of a pass, from the geometry to the section coefficients
Locals(frame, airfoil, b, c_root, taper, twist_root, twist_tip, alpha_trim, N) ==
    LET semi == Mul(b, Rat(1, 2))
        c_tip == Mul(c_root, taper)
        S == S_of(b, c_root, c_tip)
        AR == AR_of(b, S)
        y == linspace0(semi, N)
        chord_y == chord_of(y, semi, c_root, c_tip)
        twist_y == twist_of(y, semi, twist_root, twist_tip)
        dy == dy_of(semi, N)
        sec == [i \in 1..N |->
                   _interp_section(frame, airfoil, Re_of(chord_y[i]), Add(alpha_trim, twist_y[i]))]
    IN  [semi |-> semi, c_tip |-> c_tip, S |-> S, AR |-> AR, y |-> y,
         chord_y |-> chord_y, twist_y |-> twist_y, dy |-> dy,
         dS |-> [i \in 1..N |-> Mul(chord_y[i], dy)],
         alpha_local |-> [i \in 1..N |-> Add(alpha_trim, twist_y[i])],
         Re_local |-> [i \in 1..N |-> Re_of(chord_y[i])],
         CL_sec |-> [i \in 1..N |-> sec[i][1]],
         CD_sec |-> [i \in 1..N |-> sec[i][2]],
         CM_sec |-> [i \in 1..N |-> sec[i][3]],
         c_mac |-> c_mac_of(c_root, taper)]

NoLocals == [semi |-> NaN]

\* a Python float division of the pass raised
Raised(l) == ZeroDivisionError \in {l.AR, l.dy, l.c_mac}

\* a row in which the dihedral scales the planform area, as a projected area would
RowOf_projected(l, airfoil, b, c_root, taper, dihedral, twist_root, twist_tip, alpha_trim) ==
    [Airfoil |-> airfoil, b |-> b, c_root |-> c_root, taper |-> taper,
     c_tip |-> l.c_tip,
     S |-> IF dihedral = <<0, 1>> THEN l.S ELSE Mul(l.S, <<1, 2>>),
     AR |-> l.AR, dihedral_deg |-> dihedral,
     twist_root_deg |-> twist_root, twist_tip_deg |-> twist_tip,
     alpha_trim_deg |-> alpha_trim, V |-> VEL, rho |-> RHO, mu |-> MU,
     CL |-> NaN, CDp |-> NaN, CDi |-> NaN, CD |-> NaN, Cm |-> NaN, L_N |-> NaN]

\* lines 121-158: the row appended for the pass with locals l
RowOf(l, airfoil, b, c_root, taper, dihedral, twist_root, twist_tip, alpha_trim) ==
    LET e == e_of(l.AR)
        L == Mul(<<2, 1>>, ForceSum(l.dS, l.CL_sec))
        Dp == Mul(<<2, 1>>, ForceSum(l.dS, l.CD_sec))
        CL == Coef(L, l.S)
        CDp == Coef(Dp, l.S)
        CDi == CDi_of(CL, l.AR, e)
        M == Mul(<<2, 1>>, MomentSum(l.dS, l.CM_sec, l.chord_y))
    IN  [Airfoil |-> airfoil, b |-> b, c_root |-> c_root, taper |-> taper,
         c_tip |-> l.c_tip, S |-> l.S, AR |-> l.AR, dihedral_deg |-> dihedral,
         twist_root_deg |-> twist_root, twist_tip_deg |-> twist_tip,
         alpha_trim_deg |-> alpha_trim, V |-> VEL, rho |-> RHO, mu |-> MU,
         CL |-> CL, CDp |-> CDp, CDi |-> CDi, CD |-> CD_of(CDp, CDi),
         Cm |-> Cm_of(M, l.S, l.c_mac), L_N |-> L]

----------------------------------------------------------------------------
(* analyze_3d: the sweep                                                   *)

\* line 83: airfoils = sorted(df2["Airfoil"].unique())
AirfoilOrder == <<"A", "B">>

\* the airfoils that have a converged row only
airfoils_of_converged(frame) ==
    SelectSeq(AirfoilOrder,
              LAMBDA a : \E i \in 1..Len(frame) : frame[i].Airfoil = a /\ ~IsNaN(frame[i].CL))

airfoils_of(frame) ==
    SelectSeq(AirfoilOrder, LAMBDA a : \E i \in 1..Len(frame) : frame[i].Airfoil = a)

\* the lengths of the eight loops of lines 86-104
Dims(frame) ==
    <<Len(airfoils_of(frame)), Len(WINGSPANS), Len(ROOT_CHORDS), Len(TAPERS),
      Len(DIHEDRALS), Len(TWIST_ROOTS), Len(TWIST_TIPS), Len(TRIM_ALPHAS)>>

\* the innermost loop alone advancing: the sweep ends with its first run through
\* TRIM_ALPHAS
Advance_innermost(ix, dims, p) ==
    IF ix[p] < dims[p] THEN [ix EXCEPT ![p] = @ + 1] ELSE <<>>

\* the loop indices after the pass at ix: the innermost loop that has a next
\* element advances and the loops inside it restart; <<>> when all are done
RECURSIVE Advance(_, _, _)
Advance(ix, dims, p) ==
    IF p = 0 THEN <<>>
    ELSE IF ix[p] < dims[p] THEN [ix EXCEPT ![p] = @ + 1]
    ELSE Advance([ix EXCEPT ![p] = 1], dims, p - 1)

\* the sort key without its taper column
SortKeyLt_without_taper(r, s) ==
    \/ r.Airfoil # s.Airfoil /\ r.Airfoil = "A"
    \/ /\ r.Airfoil = s.Airfoil
       /\ \/ Lt(r.b, s.b)
          \/ /\ r.b = s.b
             /\ \/ Lt(r.c_root, s.c_root)
                \/ r.c_root = s.c_root /\ Lt(r.alpha_trim_deg, s.alpha_trim_deg)

\* lines 163-168: df3.sort_values(["Airfoil", "b", "c_root", "taper", "alpha_trim_deg"])
SortKeyLt(r, s) ==
    \/ r.Airfoil # s.Airfoil /\ r.Airfoil = "A"
    \/ /\ r.Airfoil = s.Airfoil
       /\ \/ Lt(r.b, s.b)
          \/ /\ r.b = s.b
             /\ \/ Lt(r.c_root, s.c_root)
                \/ /\ r.c_root = s.c_root
                   /\ \/ Lt(r.taper, s.taper)
                      \/ r.taper = s.taper /\ Lt(r.alpha_trim_deg, s.alpha_trim_deg)

\* the pairs <<i, j>> of an earlier row i and a later row j of smaller key
Overtaking(rows) ==
    {p \in (1..Len(rows)) \X (1..Len(rows)) :
        p[1] < p[2] /\ SortKeyLt(rows[p[2]], rows[p[1]])}

\* the place of each row in the sorted frame, as pairs <<row, place>>: after the
\* rows of smaller key and after the earlier rows of equal key
PlaceByKey(n, over) ==
    {<<i, 1 + Cardinality({j \in (i + 1)..n : <<i, j>> \in over})
            + Cardinality({j \in 1..(i - 1) : <<j, i>> \notin over})>> : i \in 1..n}

Arrange(rows, place) ==
    [k \in 1..Len(rows) |-> rows[(CHOOSE p \in place : p[2] = k)[1]]]

sort_values_3d(rows) == Arrange(rows, PlaceByKey(Len(rows), Overtaking(rows)))

\* lines 68-84: the input checks; the loops start, or the function returns an
\* empty frame
Load ==
    /\ pc = "start"
    /\ IF file2d # "ok" THEN pc' = "done" /\ it' = it
       ELSE IF airfoils_of(df) = <<>> THEN pc' = "finish" /\ it' = it
       ELSE pc' = "loop" /\ it' = <<1, 1, 1, 1, 1, 1, 1, 1>>
    /\ UNCHANGED <<ties, df, qry, res, file2d, N_SPAN_SECTIONS, loc, out_rows, csv3d, polarvars, fetchvars, calls>>

\* lines 88-158 for the combination at `it`, and the step to the next one
Combo ==
    /\ pc = "loop"
    /\ LET airfoil == airfoils_of(df)[it[1]]
           b == WINGSPANS[it[2]]
           c_root == ROOT_CHORDS[it[3]]
           taper == TAPERS[it[4]]
           dihedral == DIHEDRALS[it[5]]
           twist_root == TWIST_ROOTS[it[6]]
           twist_tip == TWIST_TIPS[it[7]]
           alpha_trim == TRIM_ALPHAS[it[8]]
           nxt == Advance(it, Dims(df), 8)
       IN  /\ df' = TableAfter(df, airfoil)
           /\ loc' = Locals(df, airfoil, b, c_root, taper, twist_root, twist_tip, alpha_trim,
                            N_SPAN_SECTIONS)
           /\ IF Raised(loc') THEN pc' = "raised" /\ it' = it /\ out_rows' = out_rows
              ELSE /\ out_rows' = Append(out_rows,
                          RowOf(loc', airfoil, b, c_root, taper, dihedral, twist_root, twist_tip,
                                alpha_trim))
                   /\ IF nxt = <<>> THEN pc' = "finish" /\ it' = it
                      ELSE pc' = "loop" /\ it' = nxt
    /\ UNCHANGED <<ties, qry, res, file2d, N_SPAN_SECTIONS, csv3d, polarvars, fetchvars, calls>>

\* lines 163-171: nothing is written for an empty frame, else the sorted rows
Finish ==
    /\ pc = "finish"
    /\ pc' = "done"
    /\ csv3d' = IF out_rows = <<>> THEN <<>> ELSE <<sort_values_3d(out_rows)>>
    /\ UNCHANGED <<ties, df, qry, res, file2d, N_SPAN_SECTIONS, it, loc, out_rows, polarvars, fetchvars, calls>>

----------------------------------------------------------------------------
(* The polar tables and queries the model ranges over                      *)

\* most rows of a table
MaxRows == 3

I(n) == <<n, 1>>

\* analyze_airfoils.py line 33
RE_LIST == <<I(200000), I(500000), I(1000000)>>

\* recorded angles of attack: two points of ALPHA_LIST (analyze_airfoils.py line 34)
RecordedAlphas == {I(0), I(2)}

\* the section coefficients (CL, CD, CM) a solver row can carry: the two samples
\* of the end-to-end scenario, and a non-converged point
Sample1 == <<Rat(1, 2), Rat(1, 50), Rat(-1, 20)>>

Sample2 == <<Rat(9, 10), Rat(3, 100), Rat(-3, 50)>>

Coefs == {Sample1, Sample2, NaN3}

Row(af, re, al, c) == [Airfoil |-> af, Re |-> re, Alpha |-> al, CL |-> c[1], CD |-> c[2], CM |-> c[3]]

RowsA ==
    {Row("A", RE_LIST[k], al, c) : k \in 1..2, al \in RecordedAlphas, c \in Coefs}
        \cup {Row("A", RE_LIST[3], I(0), c) : c \in {Sample1, NaN3}}

RowsB == {Row("B", RE_LIST[2], I(0), Sample1)}

\* the (Airfoil, Re, Alpha) order of analyze_airfoils.py line 257
KeyLe(r, s) ==
    \/ r.Airfoil = "A" /\ s.Airfoil = "B"
    \/ /\ r.Airfoil = s.Airfoil
       /\ \/ Lt(r.Re, s.Re)
          \/ r.Re = s.Re /\ Le(r.Alpha, s.Alpha)

\* the tables of at most n rows out of R that analyze_airfoils can have written:
\* rows in (Airfoil, Re, Alpha) order, a key possibly recorded more than once
TablesOf(R, n) ==
    UNION {{t \in [1..k -> R] : \A i \in 1..(k - 1) : KeyLe(t[i], t[i + 1])} : k \in 0..n}

QueryRe == {I(100000), I(200000), I(300000), I(500000), I(1000000), I(1200000)}

QueryAlpha == {I(-1), I(0), Rat(1, 2), I(1), I(2), I(3)}

Queries ==
    {<<"A", re, al>> : re \in QueryRe, al \in QueryAlpha}
        \cup {<<"B", I(500000), I(0)>>, <<"B", I(300000), I(1)>>}

NoQuery == <<"", NaN, NaN>>

\* analyze_airfoils is not running
PolarIdle ==
    /\ dat = {}
    /\ apc = "idle"
    /\ pos = <<>>
    /\ results = <<>>
    /\ log = {}
    /\ tries = <<>>
    /\ csv2d = <<>>

\* fetch_airfoils is not running
FetchIdle ==
    /\ airfoil_list = <<>>
    /\ fi = 0
    /\ cache = <<>>
    /\ nreq = <<>>
    /\ ret = <<>>
    /\ airfoil_dict = <<>>

----------------------------------------------------------------------------
(* The interpolator on its own                                             *)

\* the orders of equal-Alpha rows that matter for a frame: both when the frame
\* holds two rows of the same (Airfoil, Re, Alpha), else the one (no sort of
\* the frame meets a tie)
TieOrders(frame) ==
    IF \E i, j \in 1..Len(frame) :
          /\ i < j /\ frame[i].Airfoil = frame[j].Airfoil
          /\ FloatEq(frame[i].Re, frame[j].Re) /\ FloatEq(frame[i].Alpha, frame[j].Alpha)
    THEN {"kept", "reversed"}
    ELSE {"kept"}

InitInterp ==
    /\ df \in TablesOf(RowsA \cup RowsB, MaxRows)
    /\ ties \in TieOrders(df)
    /\ qry = NoQuery
    /\ res = NaN3
    /\ file2d = "ok"
    /\ N_SPAN_SECTIONS = 2
    /\ pc = "idle"
    /\ it = <<>>
    /\ loc = NoLocals
    /\ out_rows = <<>>
    /\ csv3d = <<>>
    /\ PolarIdle
    /\ FetchIdle
    /\ calls = <<>>

\* one call _interp_section(df, airfoil, Re, alpha)
Query ==
    /\ qry = NoQuery
    /\ \E a \in Queries :
        /\ qry' = a
        /\ res' = _interp_section(df, a[1], a[2], a[3])
        /\ df' = TableAfter(df, a[1])
    /\ UNCHANGED <<ties, wingvars, polarvars, fetchvars, calls>>

\* the caller has taken the result and may call again
Return ==
    /\ qry # NoQuery
    /\ qry' = NoQuery
    /\ res' = NaN3
    /\ UNCHANGED <<ties, df, wingvars, polarvars, fetchvars, calls>>

NextInterp == Query \/ Return

SpecInterp == InitInterp /\ [][NextInterp]_vars

----------------------------------------------------------------------------
(* The sweep analyze_3d                                                    *)

\* most rows of a table given to the sweep
MaxWingRows == 2

\* most span stations
MaxN == 3

\* the rows a table given to the sweep is made of: airfoil A at the two lower
\* Reynolds numbers, converged or not, and one row of airfoil B
WingRows ==
    {Row("A", RE_LIST[1], I(0), Sample1),
     Row("A", RE_LIST[1], I(2), Sample2), Row("A", RE_LIST[1], I(2), NaN3),
     Row("A", RE_LIST[2], I(0), Sample2), Row("A", RE_LIST[2], I(0), NaN3),
     Row("B", RE_LIST[2], I(0), Sample1)}

InitWing ==
    /\ file2d \in {"missing", "empty", "nocols", "ok"}
    /\ df \in IF file2d = "ok" THEN TablesOf(WingRows, MaxWingRows) ELSE {<<>>}
    /\ ties \in TieOrders(df)
    /\ N_SPAN_SECTIONS \in 1..MaxN
    /\ qry = NoQuery
    /\ res = NaN3
    /\ pc = "start"
    /\ it = <<>>
    /\ loc = NoLocals
    /\ out_rows = <<>>
    /\ csv3d = <<>>
    /\ PolarIdle
    /\ FetchIdle
    /\ calls = <<>>

NextWing == Load \/ Combo \/ Finish

SpecWing == InitWing /\ [][NextWing]_vars

----------------------------------------------------------------------------
(* Calls of _interp_section one after another on the same frame, as the    *)
(* station loop of analyze_3d makes them (lines 115-119)                   *)

\* most calls in a row
MaxCalls == 3

\* arguments the sweep passes: a root station, a mid-span station of a tapered
\* wing, a twisted tip, and the second airfoil
CallQueries ==
    {<<"A", I(200000), I(0)>>, <<"A", I(350000), I(1)>>, <<"A", I(500000), I(2)>>,
     <<"B", I(500000), I(0)>>}

InitCalls ==
    /\ df \in TablesOf(WingRows, MaxWingRows)
    /\ ties \in TieOrders(df)
    /\ calls = <<>>
    /\ qry = NoQuery
    /\ res = NaN3
    /\ file2d = "ok"
    /\ N_SPAN_SECTIONS = 2
    /\ pc = "idle"
    /\ it = <<>>
    /\ loc = NoLocals
    /\ out_rows = <<>>
    /\ csv3d = <<>>
    /\ PolarIdle
    /\ FetchIdle

\* line 116: one more call on the frame the earlier calls left
Call ==
    /\ Len(calls) < MaxCalls
    /\ \E a \in CallQueries :
        /\ qry' = a
        /\ res' = _interp_section(df, a[1], a[2], a[3])
        /\ df' = TableAfter(df, a[1])
        /\ calls' = Append(calls, [args |-> a, before |-> df, result |-> res', after |-> df'])
    /\ UNCHANGED <<ties, wingvars, polarvars, fetchvars>>

NextCalls == Call

SpecCalls == InitCalls /\ [][NextCalls]_vars

----------------------------------------------------------------------------
(* analyze_airfoils (analyze_airfoils.py lines 168-260): the 2-D sweep      *)

\* line 22, a short list; like the source's, not in alphabetical order
AIRFOILS == <<"B", "A">>

\* line 34, two angles of attack
ALPHA_LIST == <<I(0), I(2)>>

\* None
None == <<>>

\* the marker of an exception that leaves a function
Exception == <<"Exception">>

\* what a call of the solver wrapper (xf.alpha, xf.a, xf.aseq) can do: return
\* the coefficients, return something that is no list, tuple or array, or raise
SolverOutcomes == {"value", "nothing", "raises"}

\* lines 121-163 with the try/except forgotten: an exception leaves the function
_single_alpha_call_uncaught(outcome) ==
    IF outcome = "value" THEN Sample1 ELSE IF outcome = "raises" THEN Exception ELSE None

\* lines 121-163: (CL, CD, CM) or None; `except Exception: return None`
_single_alpha_call(outcome) == IF outcome = "value" THEN Sample1 ELSE None

\* lines 210-231: the first call and, when it gave None, the retry
PointResult(o1, o2) ==
    IF _single_alpha_call(o1) # None THEN _single_alpha_call(o1) ELSE _single_alpha_call(o2)

\* np.linspace(start, stop, n), indexed from 1 here
np_linspace(start, stop, n) ==
    [i \in 1..n |-> IF n = 1 THEN start ELSE Add(start, Mul(Sub(stop, start), Rat(i - 1, n - 1)))]

\* the polar the solver computes in one aseq sweep over ALPHA_LIST: Sample1 at
\* the first alpha, Sample2 at the others
SolverPolar == [k \in 1..Len(ALPHA_LIST) |-> IF k = 1 THEN Sample1 ELSE Sample2]

\* the alphas whose points an aseq sweep returns: all of them, or all but the
\* first (a wrapper that drops a point that did not converge)
SweepReturns == {1..Len(ALPHA_LIST), 2..Len(ALPHA_LIST)}

\* the indices of a set in ascending order
Ascending(S) ==
    [i \in 1..Cardinality(S) |-> CHOOSE k \in S : Cardinality({m \in S : m < k}) = i - 1]

\* lines 83-119 for a sweep that returned arrays: the solver returns the points
\* of the alphas `kept` (it may drop the others); n = len(cl_arr) and
\* alpha_arr = np.linspace(alpha_start, alpha_end, n) (lines 103-105).  Each
\* point is given with the alpha the code attaches to it, its coefficients,
\* and the alpha the solver computed it at.
_try_sweep_with_aseq(kept) ==
    LET pts == Ascending(kept)
        n == Len(pts)
        alpha_arr == np_linspace(ALPHA_LIST[1], ALPHA_LIST[Len(ALPHA_LIST)], n)
    IN  [i \in 1..n |->
            [Alpha |-> alpha_arr[i], coefs |-> SolverPolar[pts[i]], at |-> ALPHA_LIST[pts[i]]]]

\* a second call made whatever the first one returned
Attempts_always_retry(o1, o2) == <<_single_alpha_call(o1), _single_alpha_call(o2)>>

\* lines 210-231: what the calls made for one alpha returned, in order: the
\* first call, and the one retry made when `out is None`
Attempts(o1, o2) ==
    IF _single_alpha_call(o1) # None THEN <<_single_alpha_call(o1)>>
    ELSE <<_single_alpha_call(o1), _single_alpha_call(o2)>>

\* line 257: sort_values(["Airfoil", "Re", "Alpha"]), stable
RECURSIVE InsertByKey2d(_, _)
InsertByKey2d(r, rows) ==
    IF rows = <<>> THEN <<r>>
    ELSE IF ~KeyLe(rows[1], r) THEN <<r>> \o rows
    ELSE <<rows[1]>> \o InsertByKey2d(r, Tail(rows))

RECURSIVE sort_values_2d(_)
sort_values_2d(rows) ==
    IF rows = <<>> THEN <<>>
    ELSE InsertByKey2d(rows[Len(rows)], sort_values_2d(SubSeq(rows, 1, Len(rows) - 1)))

\* lines 173-179: the next airfoil; one without a .dat file is skipped
AirfoilStep ==
    /\ apc = "airfoil"
    /\ IF pos[1] > Len(AIRFOILS) THEN apc' = "save" /\ pos' = pos /\ log' = log
       ELSE IF AIRFOILS[pos[1]] \notin dat
            THEN /\ apc' = "airfoil"
                 /\ pos' = <<pos[1] + 1, 1, 1>>
                 /\ log' = log \cup {<<"nofile", AIRFOILS[pos[1]]>>}
            ELSE apc' = "re" /\ pos' = <<pos[1], 1, 1>> /\ log' = log
    /\ UNCHANGED <<ties, dat, results, tries, csv2d, df, qry, res, wingvars, fetchvars, calls>>

\* lines 181-207: the next Reynolds number of the airfoil: no backend (continue),
\* a whole polar from one aseq sweep, or on to the calls alpha by alpha
ReStep ==
    /\ apc = "re"
    /\ IF pos[2] > Len(RE_LIST)
       THEN apc' = "airfoil" /\ pos' = <<pos[1] + 1, 1, 1>> /\ log' = log /\ results' = results
       ELSE LET name == AIRFOILS[pos[1]]
                Re == RE_LIST[pos[2]]
            IN  \/ /\ apc' = "re"
                   /\ pos' = <<pos[1], pos[2] + 1, 1>>
                   /\ log' = log \cup {<<"noinit", name, Re>>}
                   /\ results' = results
                \/ /\ \E kept \in SweepReturns :
                          LET sweep_res == _try_sweep_with_aseq(kept)
                          IN  /\ results' = results \o
                                     [i \in 1..Len(sweep_res) |->
                                         Row(name, Re, sweep_res[i].Alpha, sweep_res[i].coefs)]
                              /\ log' = log \cup {<<"swept", name, Re>>}
                                         \cup {<<"point", name, Re, sweep_res[i].Alpha, sweep_res[i].at>> :
                                                  i \in 1..Len(sweep_res)}
                   /\ apc' = "re"
                   /\ pos' = <<pos[1], pos[2] + 1, 1>>
                \/ /\ apc' = "alpha"
                   /\ pos' = <<pos[1], pos[2], 1>>
                   /\ log' = log
                   /\ results' = results
    /\ tries' = <<>>
    /\ UNCHANGED <<ties, dat, csv2d, df, qry, res, wingvars, fetchvars, calls>>

\* lines 210-245: one alpha: the call, the retry after a None, then the row or
\* the `continue`.  The retry's changes of n_crit and max_iter reach the solver
\* only, whose outcome is chosen freely here.
AlphaStep ==
    /\ apc = "alpha"
    /\ IF pos[3] > Len(ALPHA_LIST)
       THEN /\ apc' = "re" /\ pos' = <<pos[1], pos[2] + 1, 1>> /\ log' = log
            /\ results' = results /\ tries' = tries
       ELSE \E o1, o2 \in SolverOutcomes :
              LET name == AIRFOILS[pos[1]]
                  Re == RE_LIST[pos[2]]
                  alpha == ALPHA_LIST[pos[3]]
                  out == PointResult(o1, o2)
              IN  IF out = Exception
                  THEN /\ apc' = "aborted" /\ pos' = pos /\ log' = log /\ results' = results
                       /\ tries' = Attempts(o1, o2)
                  ELSE /\ apc' = "alpha"
                       /\ tries' = Attempts(o1, o2)
                       /\ pos' = <<pos[1], pos[2], pos[3] + 1>>
                       /\ IF out = None
                          THEN /\ log' = log \cup {<<"failed", name, Re, alpha>>}
                               /\ results' = results
                          ELSE /\ log' = log \cup {<<"ok", name, Re, alpha>>}
                               /\ results' = Append(results, Row(name, Re, alpha, out))
    /\ UNCHANGED <<ties, dat, csv2d, df, qry, res, wingvars, fetchvars, calls>>

\* lines 248-260: the CSV is always written, with the rows sorted
Save ==
    /\ apc = "save"
    /\ apc' = "done"
    /\ csv2d' = <<sort_values_2d(results)>>
    /\ UNCHANGED <<ties, dat, pos, results, log, tries, df, qry, res, wingvars, fetchvars, calls>>

InitPolar ==
    /\ dat \in SUBSET {AIRFOILS[k] : k \in 1..Len(AIRFOILS)}
    /\ apc = "airfoil"
    /\ pos = <<1, 1, 1>>
    /\ results = <<>>
    /\ log = {}
    /\ tries = <<>>
    /\ csv2d = <<>>
    /\ df = <<>>
    /\ ties = "kept"
    /\ qry = NoQuery
    /\ res = NaN3
    /\ file2d = "missing"
    /\ N_SPAN_SECTIONS = 2
    /\ pc = "idle"
    /\ it = <<>>
    /\ loc = NoLocals
    /\ out_rows = <<>>
    /\ csv3d = <<>>
    /\ FetchIdle
    /\ calls = <<>>

NextPolar == AirfoilStep \/ ReStep \/ AlphaStep \/ Save

SpecPolar == InitPolar /\ [][NextPolar]_vars

\* the interpreter runs the loop over ALPHA_LIST on: the solver wrapper returns
\* or raises, and the step that handles the alpha at hand is then taken
SpecPolarFair == SpecPolar /\ WF_vars(AlphaStep)

----------------------------------------------------------------------------
(* fetch_airfoils and download_airfoil_dat (fetch_airfoils.py lines 9-44)  *)

\* longest airfoil_list
MaxList == 3

Names == {"a", "b"}

\* lines 15-16: filepath = os.path.join(AIRFOIL_DIR, f"{airfoil_name}.dat")
Path(n) == <<"airfoils", n, ".dat">>

\* what requests.get and raise_for_status (lines 24-25) can do, and what
\* writing the file (lines 26-27) can do
NetOutcomes == {"ok", "connection_error", "http_error"}

WriteOutcomes == {"ok", "io_error"}

\* a check that never finds the file
os_path_exists_never(c) == FALSE

\* line 19: os.path.exists(filepath), for the file state c
os_path_exists(c) == c # "absent"

\* lines 23-32: the file state and the return value after the try block
TryDownload(n, net, wr) ==
    IF net # "ok" THEN [file |-> "absent", value |-> None]
    ELSE IF wr # "ok" THEN [file |-> "partial", value |-> None]
    ELSE [file |-> "stored", value |-> Path(n)]

InitFetch ==
    /\ airfoil_list \in UNION {[1..k -> Names] : k \in 1..MaxList}
    /\ fi = 1
    /\ cache \in [Names -> {"absent", "stored"}]
    /\ nreq = [n \in Names |-> 0]
    /\ ret = [name |-> "", value |-> None, request |-> "none"]
    /\ airfoil_dict = {}
    /\ df = <<>>
    /\ ties = "kept"
    /\ qry = NoQuery
    /\ res = NaN3
    /\ file2d = "missing"
    /\ N_SPAN_SECTIONS = 2
    /\ pc = "idle"
    /\ it = <<>>
    /\ loc = NoLocals
    /\ out_rows = <<>>
    /\ csv3d = <<>>
    /\ PolarIdle
    /\ calls = <<>>

\* lines 40-43: one pass of the loop of fetch_airfoils, the call of
\* download_airfoil_dat (lines 14-32) included
Download ==
    /\ fi >= 1 /\ fi <= Len(airfoil_list)
    /\ LET n == airfoil_list[fi]
       IN  /\ IF os_path_exists(cache[n])
              THEN /\ ret' = [name |-> n, value |-> Path(n), request |-> "none"]
                   /\ UNCHANGED <<cache, nreq>>
              ELSE \E net \in NetOutcomes, wr \in WriteOutcomes :
                      /\ nreq' = [nreq EXCEPT ![n] = @ + 1]
                      /\ cache' = [cache EXCEPT ![n] = TryDownload(n, net, wr).file]
                      /\ ret' = [name |-> n, value |-> TryDownload(n, net, wr).value,
                                 request |-> net]
           /\ airfoil_dict' = IF ret'.value # None THEN airfoil_dict \cup {<<n, ret'.value>>}
                              ELSE airfoil_dict
    /\ fi' = fi + 1
    /\ UNCHANGED <<ties, airfoil_list, df, qry, res, wingvars, polarvars, calls>>

\* line 44: return airfoil_dict
ReturnDict ==
    /\ fi > Len(airfoil_list)
    /\ fi' = 0
    /\ UNCHANGED <<ties, airfoil_list, cache, nreq, ret, airfoil_dict, df, qry, res, wingvars,
                   polarvars, calls>>

NextFetch == Download \/ ReturnDict

SpecFetch == InitFetch /\ [][NextFetch]_vars

----------------------------------------------------------------------------
(* Properties of the interpolator (SpecInterp)                             *)

Called == qry # NoQuery

\* the rows of df recorded under the queried airfoil
QSub == SubFrame(df, qry[1])

\* the rows of df with exactly the queried (airfoil, Re, alpha)
QHits == {i \in 1..Len(df) :
            df[i].Airfoil = qry[1] /\ df[i].Re = qry[2] /\ df[i].Alpha = qry[3]}

CoefsOfRow(r) == <<r.CL, r.CD, r.CM>>

\* C1: a query whose (airfoil, Reynolds, alpha) is the key of a sample of the
\* table (the one sample recorded under that key) returns that sample's
\* (CL, CD, CM) exactly.
C1_ExactSample ==
    (Called /\ Cardinality(QHits) = 1) =>
        \A i \in QHits : res = CoefsOfRow(df[i])

\* C2: a query whose Reynolds is a recorded Reynolds of the airfoil returns the
\* alpha interpolation within the rows of that Reynolds, whatever is recorded
\* at the neighbouring Reynolds numbers.
C2_NoNeighbour ==
    (Called /\ \E i \in 1..Len(QSub) : QSub[i].Re = qry[2]) =>
        res = interp_at(QSub, qry[2], qry[3])

\* the pair (Re_lo, Re_hi) of the query, and the rows recorded at either
QBracket == ReBracket(QSub, qry[2])

QGroup(R) == SelectSeq(QSub, LAMBDA r : r.Re = R)

QBracketAlphas ==
    {QSub[i].Alpha : i \in {k \in 1..Len(QSub) : QSub[k].Re \in {QBracket[1], QBracket[2]}}}

RatSetMax(X) == CHOOSE m \in X : \A x \in X : Le(x, m)

RatSetMin(X) == CHOOSE m \in X : \A x \in X : Le(m, x)

GroupAlphas(R) == {QGroup(R)[i].Alpha : i \in 1..Len(QGroup(R))}

\* C3: a query alpha beyond the alphas recorded at a Reynolds of the bracket is
\* evaluated there as the nearest recorded boundary alpha is, and a query alpha
\* beyond all alphas recorded at the bracket returns what the query at the
\* nearest of them returns: the polar is clamped, never extrapolated.
C3_AlphaClamped ==
    (Called /\ QSub # <<>>) =>
        /\ \A R \in {QBracket[1], QBracket[2]} :
              /\ Lt(RatSetMax(GroupAlphas(R)), qry[3]) =>
                    interp_at(QSub, R, qry[3]) = interp_at(QSub, R, RatSetMax(GroupAlphas(R)))
              /\ Lt(qry[3], RatSetMin(GroupAlphas(R))) =>
                    interp_at(QSub, R, qry[3]) = interp_at(QSub, R, RatSetMin(GroupAlphas(R)))
        /\ Lt(RatSetMax(QBracketAlphas), qry[3]) =>
              res = _interp_section(df, qry[1], qry[2], RatSetMax(QBracketAlphas))
        /\ Lt(qry[3], RatSetMin(QBracketAlphas)) =>
              res = _interp_section(df, qry[1], qry[2], RatSetMin(QBracketAlphas))

\* a query above the recorded alphas of a polar that still rises at its upper end
C3_Witness ==
    /\ Called
    /\ Len(QSub) = 2
    /\ QSub[1].Re = QSub[2].Re
    /\ QSub[1].Alpha = I(0) /\ QSub[2].Alpha = I(2)
    /\ QSub[1].CL = Rat(1, 2) /\ QSub[2].CL = Rat(9, 10)
    /\ qry[3] = I(3)
    /\ res[1] = Rat(9, 10)

\* the recorded Reynolds numbers of the queried airfoil
QReynolds == {QSub[i].Re : i \in 1..Len(QSub)}

\* v1 + (v2 - v1) (alpha - a1) / (a2 - a1)
Linear(v1, v2, a1, a2, alpha) ==
    Add(v1, Div(Mul(Sub(v2, v1), Sub(alpha, a1)), Sub(a2, a1)))

\* C7: when the airfoil is recorded at a single Reynolds number and the query
\* alpha lies between two adjacent recorded alphas a1 < a2 (each recorded
\* once), each returned coefficient is the linear interpolation of the two
\* samples.
C7_LinearInAlpha ==
    (Called /\ Cardinality(QReynolds) = 1) =>
        \A i, j \in 1..Len(QSub) :
            ( /\ Lt(QSub[i].Alpha, qry[3]) /\ Lt(qry[3], QSub[j].Alpha)
              /\ \A k \in 1..Len(QSub) :
                    /\ k # i => QSub[k].Alpha # QSub[i].Alpha
                    /\ k # j => QSub[k].Alpha # QSub[j].Alpha
                    /\ ~(Lt(QSub[i].Alpha, QSub[k].Alpha) /\ Lt(QSub[k].Alpha, QSub[j].Alpha)) )
            => res = <<Linear(QSub[i].CL, QSub[j].CL, QSub[i].Alpha, QSub[j].Alpha, qry[3]),
                       Linear(QSub[i].CD, QSub[j].CD, QSub[i].Alpha, QSub[j].Alpha, qry[3]),
                       Linear(QSub[i].CM, QSub[j].CM, QSub[i].Alpha, QSub[j].Alpha, qry[3])>>

\* a quarter of the way from (CL 0.5, CD 0.02, CM -0.05) to (0.9, 0.03, -0.06)
C7_Witness ==
    /\ Called
    /\ Len(QSub) = 2
    /\ QSub[1].Re = QSub[2].Re
    /\ QSub[1].Alpha = I(0) /\ QSub[2].Alpha = I(2)
    /\ QSub[1].CL = Rat(1, 2) /\ QSub[2].CL = Rat(9, 10)
    /\ qry[3] = Rat(1, 2)
    /\ res = <<Rat(3, 5), Rat(9, 400), Rat(-21, 400)>>

\* C8: a query for an airfoil without a sample in the table returns the
\* "no data" triple, NaN in each of CL, CD and CM.
C8_UnknownAirfoil ==
    (Called /\ \A i \in 1..Len(df) : df[i].Airfoil # qry[1]) => res = NaN3

\* airfoil B asked of a table that records airfoil A only
C8_Witness ==
    /\ Called
    /\ qry[1] = "B"
    /\ df # <<>>
    /\ \A i \in 1..Len(df) : df[i].Airfoil = "A" /\ ~IsNaN(df[i].CL)
    /\ res = NaN3

----------------------------------------------------------------------------
(* Properties of the sweep (SpecWing)                                      *)

\* a pass through the loop body has appended the last row of out_rows, with
\* its locals in loc
Passed == pc \in {"loop", "finish", "done"} /\ out_rows # <<>>

LastRow == out_rows[Len(out_rows)]

Stations == 1..N_SPAN_SECTIONS

\* C4: for a rectangular wing (taper 1, S > 0) of N >= 2 stations whose
\* section CL is the same value c at every station, the whole-wing CL is c.
C4_ConstantCL ==
    (Passed /\ LastRow.taper = <<1, 1>> /\ Lt(<<0, 1>>, LastRow.S) /\ N_SPAN_SECTIONS >= 2
        /\ ~IsNaN(loc.CL_sec[1]) /\ \A i \in Stations : loc.CL_sec[i] = loc.CL_sec[1])
    => LastRow.CL = loc.CL_sec[1]

\* C5: when every station of a wing with S > 0 has "no data", the row's CL, CD
\* and Cm are NaN.
C5_AllInvalid ==
    (Passed /\ Lt(<<0, 1>>, LastRow.S)
        /\ \A i \in Stations :
              IsNaN(loc.CL_sec[i]) /\ IsNaN(loc.CD_sec[i]) /\ IsNaN(loc.CM_sec[i]))
    => IsNaN(LastRow.CL) /\ IsNaN(LastRow.CD) /\ IsNaN(LastRow.Cm)

\* C6: the strip widths of the stations that enter the half-wing sums, one dy
\* for each of the N stations, add up to the semi-span b / 2.
C6_WidthsSumToSemiSpan ==
    Passed => np_nansum([i \in Stations |-> loc.dy]) = Mul(LastRow.b, Rat(1, 2))

\* C9: a wing of span 0 does not raise; its row has AR, CL, CDp, CDi, CD and
\* Cm NaN and the lift L_N zero.
C9_ZeroSpan ==
    /\ pc # "raised"
    /\ \A i \in 1..Len(out_rows) :
          out_rows[i].b = <<0, 1>> =>
              /\ IsNaN(out_rows[i].AR)
              /\ IsNaN(out_rows[i].CL) /\ IsNaN(out_rows[i].CDp) /\ IsNaN(out_rows[i].CDi)
              /\ IsNaN(out_rows[i].CD) /\ IsNaN(out_rows[i].Cm)
              /\ out_rows[i].L_N = <<0, 1>>

\* a row of span 0 whose stations had section data
C9_Witness ==
    /\ Passed
    /\ LastRow.b = <<0, 1>>
    /\ \E i \in Stations : ~IsNaN(loc.CL_sec[i]) /\ loc.CL_sec[i] # <<0, 1>>
    /\ LastRow.L_N = <<0, 1>>
    /\ IsNaN(LastRow.AR)

\* C10: in every row CD is CDp + CDi when both are finite and NaN when either
\* is not.
C10_TotalDrag ==
    \A i \in 1..Len(out_rows) :
        LET r == out_rows[i]
        IN  IF IsFinite(r.CDp) /\ IsFinite(r.CDi) THEN r.CD = Add(r.CDp, r.CDi)
            ELSE IsNaN(r.CD)

\* rows of both kinds: a drag sum with a non-zero induced part, and an absent one
C10_Witness ==
    /\ \E i \in 1..Len(out_rows) :
          /\ IsFinite(out_rows[i].CDp) /\ IsFinite(out_rows[i].CDi)
          /\ Lt(<<0, 1>>, out_rows[i].CDi) /\ Lt(<<0, 1>>, out_rows[i].CDp)
          /\ out_rows[i].CD = Add(out_rows[i].CDp, out_rows[i].CDi)
    /\ \E i \in 1..Len(out_rows) : IsNaN(out_rows[i].CDi) /\ IsNaN(out_rows[i].CD)

\* the combinations of the sweep over the airfoils of df, as tuples of loop indices
Combinations ==
    {ix \in [1..8 -> 1..2] : \A p \in 1..8 : ix[p] <= Dims(df)[p]}

\* the row r is the row of the combination ix
RowIsOf(r, ix) ==
    /\ r.Airfoil = airfoils_of(df)[ix[1]]
    /\ r.b = WINGSPANS[ix[2]]
    /\ r.c_root = ROOT_CHORDS[ix[3]]
    /\ r.taper = TAPERS[ix[4]]
    /\ r.dihedral_deg = DIHEDRALS[ix[5]]
    /\ r.twist_root_deg = TWIST_ROOTS[ix[6]]
    /\ r.twist_tip_deg = TWIST_TIPS[ix[7]]
    /\ r.alpha_trim_deg = TRIM_ALPHAS[ix[8]]

ExactlyOnce(rows) ==
    \A ix \in Combinations : Cardinality({i \in 1..Len(rows) : RowIsOf(rows[i], ix)}) = 1

\* C11: the sweep never raises, and once its loops have ended the rows, and
\* the table written from them, hold exactly one row for every combination
\* airfoil x span x root chord x taper x dihedral x root twist x tip twist x
\* trim alpha, degenerate geometry and missing section data included.
C11_OneRowPerCombination ==
    /\ pc # "raised"
    /\ (file2d = "ok" /\ pc \in {"finish", "done"}) =>
          /\ Len(out_rows) = Cardinality(Combinations)
          /\ ExactlyOnce(out_rows)
    /\ csv3d # <<>> => Len(csv3d[1]) = Cardinality(Combinations) /\ ExactlyOnce(csv3d[1])

\* a finished sweep over two airfoils, with rows of span 0 and a polar with a
\* non-converged point
C11_Witness ==
    /\ pc = "done"
    /\ Len(airfoils_of(df)) = 2
    /\ csv3d # <<>>
    /\ \E i \in 1..Len(out_rows) : out_rows[i].b = <<0, 1>> /\ IsNaN(out_rows[i].CL)
    /\ \E i \in 1..Len(df) : IsNaN(df[i].CL)

\* C12: for a wing of taper 1 the tip chord is the root chord, and so is the
\* local chord at every span station.
C12_ConstantChord ==
    (Passed /\ LastRow.taper = <<1, 1>>) =>
        /\ loc.c_tip = LastRow.c_root
        /\ LastRow.c_tip = LastRow.c_root
        /\ \A i \in Stations : loc.chord_y[i] = LastRow.c_root

\* an untapered wing of positive span with stations beyond the root
C12_Witness ==
    /\ Passed
    /\ LastRow.taper = <<1, 1>>
    /\ Lt(<<0, 1>>, LastRow.b)
    /\ N_SPAN_SECTIONS >= 3
    /\ Len(loc.chord_y) = N_SPAN_SECTIONS
    /\ loc.chord_y[N_SPAN_SECTIONS] = ROOT_CHORDS[2]

\* the recorded Reynolds numbers of the airfoil other than its m smallest
RECURSIVE DropLowest(_, _)
DropLowest(X, m) == IF m = 0 \/ X = {} THEN X ELSE DropLowest(X \ {RatSetMin(X)}, m - 1)

RECURSIVE DropHighest(_, _)
DropHighest(X, m) == IF m = 0 \/ X = {} THEN X ELSE DropHighest(X \ {RatSetMax(X)}, m - 1)

\* C17: the pair (Re_lo, Re_hi) is made of recorded Reynolds numbers of the
\* airfoil with Re_lo <= Re_hi: the one value twice when only one is recorded,
\* the two lowest for a query below the lowest, the two highest for a query
\* above the highest, and otherwise two adjacent recorded values with
\* Re_lo <= Re <= Re_hi.
C17_ReBracket ==
    (Called /\ QSub # <<>>) =>
        LET Rs == QReynolds
            lo == QBracket[1]
            hi == QBracket[2]
            Re == qry[2]
        IN  /\ lo \in Rs /\ hi \in Rs /\ Le(lo, hi)
            /\ Cardinality(Rs) = 1 => lo = hi
            /\ (Cardinality(Rs) >= 2 /\ Lt(Re, RatSetMin(Rs))) =>
                  lo = RatSetMin(Rs) /\ hi = RatSetMin(DropLowest(Rs, 1))
            /\ (Cardinality(Rs) >= 2 /\ Lt(RatSetMax(Rs), Re)) =>
                  hi = RatSetMax(Rs) /\ lo = RatSetMax(DropHighest(Rs, 1))
            /\ (Cardinality(Rs) >= 2 /\ Le(RatSetMin(Rs), Re) /\ Le(Re, RatSetMax(Rs))) =>
                  /\ Le(lo, Re) /\ Le(Re, hi) /\ Lt(lo, hi)
                  /\ \A r \in Rs : ~(Lt(lo, r) /\ Lt(r, hi))

\* three recorded Reynolds numbers and a query below them all
C17_Witness ==
    /\ Called
    /\ QReynolds = {RE_LIST[1], RE_LIST[2], RE_LIST[3]}
    /\ qry[2] = I(100000)
    /\ QBracket = <<RE_LIST[1], RE_LIST[2]>>

\* the blend fraction of the query, and the evaluations at the two ends of its bracket
QT == BlendT(qry[2], QBracket[1], QBracket[2])

QLo == interp_at(QSub, QBracket[1], qry[3])

QHi == interp_at(QSub, QBracket[2], qry[3])

Between(x, u, v) == (Le(u, x) /\ Le(x, v)) \/ (Le(v, x) /\ Le(x, u))

\* C18: for every query, one with a Reynolds below or above the recorded ones
\* included, the blend fraction t is within [0, 1] and each returned coefficient
\* lies between the evaluations at Re_lo and Re_hi.
C18_BlendWithinBracket ==
    (Called /\ QSub # <<>>) =>
        /\ Le(Zero, QT) /\ Le(QT, One)
        /\ \A k \in 1..3 : ~IsNaN(res[k]) => Between(res[k], QLo[k], QHi[k])

\* the key (Airfoil, b, c_root, taper, alpha_trim_deg) of a row, the airfoil
\* by its place in the alphabet
KeyOf(r) ==
    <<IF r.Airfoil = "A" THEN <<1, 1>> ELSE <<2, 1>>, r.b, r.c_root, r.taper, r.alpha_trim_deg>>

\* k1 <= k2 in lexicographic order: equal, or smaller at the first difference
LexLe(k1, k2) ==
    \/ k1 = k2
    \/ \E p \in 1..Len(k1) : Lt(k1[p], k2[p]) /\ \A m \in 1..(p - 1) : k1[m] = k2[m]

\* C14: the rows of the written result table are in non-decreasing
\* lexicographic order of (Airfoil, b, c_root, taper, alpha_trim_deg).
C14_SortedOutput ==
    csv3d # <<>> =>
        \A i \in 1..(Len(csv3d[1]) - 1) : LexLe(KeyOf(csv3d[1][i]), KeyOf(csv3d[1][i + 1]))

\* a written table of two airfoils whose rows were appended in another order
C14_Witness ==
    /\ csv3d # <<>>
    /\ Len(csv3d[1]) = 256
    /\ csv3d[1] # out_rows
    /\ csv3d[1][1].Airfoil = "A" /\ csv3d[1][256].Airfoil = "B"
    /\ csv3d[1][1].taper = TAPERS[2] /\ out_rows[1].taper = TAPERS[1]

\* the last row of df with exactly the queried (airfoil, Re, alpha)
QLastHit == CHOOSE i \in QHits : \A j \in QHits : j <= i

\* C23: a query at a key under which the table holds several rows of different
\* coefficients returns the coefficients of the last of those rows.
C23_LastWriteWins ==
    (Called /\ \E i, j \in QHits : CoefsOfRow(df[i]) # CoefsOfRow(df[j])) =>
        res = CoefsOfRow(df[QLastHit])

\* the sum of f[i] over the stations i of the set X
RECURSIVE SumOver(_, _)
SumOver(X, f) ==
    IF X = {} THEN <<0, 1>>
    ELSE LET i == CHOOSE k \in X : TRUE
         IN  Add(f[i], SumOver(X \ {i}, f))

\* the stations at which the section coefficients sec are data
ValidStations(sec) == {i \in Stations : ~IsNaN(sec[i])}

NoDataAt(i) == IsNaN(loc.CL_sec[i]) /\ IsNaN(loc.CD_sec[i]) /\ IsNaN(loc.CM_sec[i])

DataAt(i) == ~IsNaN(loc.CL_sec[i]) /\ ~IsNaN(loc.CD_sec[i]) /\ ~IsNaN(loc.CM_sec[i])

\* q * dy * chord * coefficient at each station, and that times the chord
StripTerm(sec) == [i \in Stations |-> Mul(Mul(Mul(q, loc.dy), loc.chord_y[i]), sec[i])]

StripMoment(sec) == [i \in Stations |-> Mul(StripTerm(sec)[i], loc.chord_y[i])]

\* C19: when some stations have "no data" and others have data, the lift,
\* parasite-drag and moment sums are the sums of the full strip terms of the
\* stations with data, and CL, CDp and Cm are finite and made of those sums.
C19_PartialData ==
    (Passed /\ (\E i \in Stations : NoDataAt(i)) /\ (\E i \in Stations : DataAt(i))) =>
        LET Lv == Mul(<<2, 1>>, SumOver(ValidStations(loc.CL_sec), StripTerm(loc.CL_sec)))
            Dv == Mul(<<2, 1>>, SumOver(ValidStations(loc.CD_sec), StripTerm(loc.CD_sec)))
            Mv == Mul(<<2, 1>>, SumOver(ValidStations(loc.CM_sec), StripMoment(loc.CM_sec)))
        IN  /\ LastRow.L_N = Lv
            /\ IsFinite(LastRow.CL) /\ LastRow.CL = Div(Lv, Mul(q, LastRow.S))
            /\ IsFinite(LastRow.CDp) /\ LastRow.CDp = Div(Dv, Mul(q, LastRow.S))
            /\ IsFinite(LastRow.Cm) /\ LastRow.Cm = Div(Mv, Mul(Mul(q, LastRow.S), loc.c_mac))

\* three stations of a twisted wing: data at the root, none at the tip
C19_Witness ==
    /\ Passed
    /\ N_SPAN_SECTIONS = 3
    /\ DataAt(1) /\ NoDataAt(3)
    /\ IsFinite(LastRow.CL) /\ Lt(<<0, 1>>, LastRow.CL)
    /\ IsFinite(LastRow.Cm) /\ Lt(LastRow.Cm, <<0, 1>>)

\* C20: on a wing of semi-span 0 every span station has the root chord as its
\* local chord, the root twist as its local twist, whatever the root twist,
\* and a strip of width 0.
C20_ZeroSemiSpan ==
    (Passed /\ loc.semi = <<0, 1>>) =>
        /\ \A i \in Stations : loc.chord_y[i] = LastRow.c_root
        /\ \A i \in Stations : loc.twist_y[i] = LastRow.twist_root_deg
        /\ loc.dy = <<0, 1>>
        /\ \A i \in Stations : loc.dS[i] = <<0, 1>>

\* the rows r and s are of the same wing and trim, the dihedral apart
SameButDihedral(r, s) ==
    /\ r.Airfoil = s.Airfoil /\ r.b = s.b /\ r.c_root = s.c_root /\ r.taper = s.taper
    /\ r.twist_root_deg = s.twist_root_deg /\ r.twist_tip_deg = s.twist_tip_deg
    /\ r.alpha_trim_deg = s.alpha_trim_deg
    /\ r.dihedral_deg # s.dihedral_deg

SameResult(r, s) ==
    /\ r.S = s.S /\ r.AR = s.AR /\ r.CL = s.CL /\ r.CDp = s.CDp
    /\ r.CDi = s.CDi /\ r.CD = s.CD /\ r.Cm = s.Cm /\ r.L_N = s.L_N

\* C21: a row appended for a wing and trim that an earlier row has with another
\* dihedral carries the same S, AR, CL, CDp, CDi, CD, Cm and L_N as that row.
C21_DihedralIsMetadata ==
    Passed =>
        \A i \in 1..(Len(out_rows) - 1) :
            SameButDihedral(out_rows[i], LastRow) => SameResult(out_rows[i], LastRow)

\* a row of finite, non-zero lift whose twin of the other dihedral was appended
\* before it
C21_Witness ==
    /\ Passed
    /\ LastRow.dihedral_deg = DIHEDRALS[2]
    /\ IsFinite(LastRow.CL) /\ LastRow.CL # <<0, 1>> /\ IsFinite(LastRow.CDi)
    /\ \E i \in 1..(Len(out_rows) - 1) :
          SameButDihedral(out_rows[i], LastRow) /\ out_rows[i].dihedral_deg = DIHEDRALS[1]

\* the 2-D input is unusable as a whole: no file, an empty file, a required
\* column missing, or no row of any airfoil
Unusable == file2d # "ok" \/ df = <<>>

\* the number of combinations of the sweep
SweepSize ==
    Dims(df)[1] * Dims(df)[2] * Dims(df)[3] * Dims(df)[4]
        * Dims(df)[5] * Dims(df)[6] * Dims(df)[7] * Dims(df)[8]

\* C22: analyze_3d never enters the loops, returns an empty table and writes
\* nothing exactly when the 2-D input is unusable as a whole; otherwise it runs
\* every combination and writes all their rows, whatever the section lookups
\* gave.
C22_EarlyExitOnlyOnUnusableInput ==
    /\ pc # "raised"
    /\ Unusable => pc \in {"start", "finish", "done"} /\ out_rows = <<>> /\ csv3d = <<>>
    /\ (pc = "done" /\ ~Unusable) =>
          /\ csv3d # <<>>
          /\ Len(out_rows) = SweepSize
          /\ Len(csv3d[1]) = SweepSize

\* a written sweep over a table none of whose points converged
C22_Witness ==
    /\ pc = "done"
    /\ file2d = "ok"
    /\ df # <<>>
    /\ \A i \in 1..Len(df) : IsNaN(df[i].CL)
    /\ csv3d # <<>>
    /\ Len(csv3d[1]) = SweepSize

----------------------------------------------------------------------------
(* Properties of the 2-D sweep (SpecPolar)                                 *)

\* the rows of `rows` recorded for the point (name, Re, alpha)
RowsAt(rows, name, Re, alpha) ==
    {i \in 1..Len(rows) : rows[i].Airfoil = name /\ rows[i].Re = Re /\ rows[i].Alpha = alpha}

\* the (airfoil, Re) pairs whose points are asked of the solver one by one
PointPairs(n, R) == <<"noinit", n, R>> \notin log /\ <<"swept", n, R>> \notin log

\* C13: a point whose solver call failed (nothing returned or an exception, on
\* the first call and on the retry) has no row, a point whose call succeeded
\* has its one row, and the sweep never aborts: once it has ended, every point
\* of every airfoil with a .dat file and every Reynolds number with a backend
\* was asked, and the rows of the successful ones are in the CSV.
C13_FailedPointOnlyMissing ==
    /\ apc # "aborted"
    /\ \A n \in dat, k \in 1..Len(RE_LIST), j \in 1..Len(ALPHA_LIST) :
          LET R == RE_LIST[k]
              a == ALPHA_LIST[j]
          IN  /\ <<"failed", n, R, a>> \in log => RowsAt(results, n, R, a) = {}
              /\ <<"ok", n, R, a>> \in log =>
                    /\ Cardinality(RowsAt(results, n, R, a)) = 1
                    /\ \A i \in RowsAt(results, n, R, a) : CoefsOfRow(results[i]) = Sample1
              /\ (apc \in {"save", "done"} /\ PointPairs(n, R)) =>
                    (<<"ok", n, R, a>> \in log) # (<<"failed", n, R, a>> \in log)
              /\ (csv2d # <<>> /\ <<"ok", n, R, a>> \in log) =>
                    Cardinality(RowsAt(csv2d[1], n, R, a)) = 1
              /\ (csv2d # <<>> /\ <<"failed", n, R, a>> \in log) =>
                    RowsAt(csv2d[1], n, R, a) = {}

\* a finished sweep in which the first point of the first airfoil failed and
\* later points, Reynolds numbers and the other airfoil still got their rows
C13_Witness ==
    /\ apc = "done"
    /\ dat = {"A", "B"}
    /\ <<"failed", "B", RE_LIST[1], ALPHA_LIST[1]>> \in log
    /\ <<"ok", "B", RE_LIST[1], ALPHA_LIST[2]>> \in log
    /\ <<"ok", "B", RE_LIST[2], ALPHA_LIST[1]>> \in log
    /\ <<"ok", "A", RE_LIST[3], ALPHA_LIST[2]>> \in log
    /\ Len(csv2d[1]) = Len(results)
    /\ Len(results) >= 3

\* at most two calls for the alpha at hand, the second only after a None
TwoAttempts ==
    /\ Len(tries) <= 2
    /\ Len(tries) = 2 => tries[1] = None

\* a step of the loop over ALPHA_LIST: the alpha at hand gets its calls and the
\* loop moves to the next alpha of the same airfoil and Reynolds number, or,
\* past the last alpha, the loop is left
AlphaLoopStep ==
    apc = "alpha" =>
        IF pos[3] <= Len(ALPHA_LIST)
        THEN /\ apc' = "alpha"
             /\ pos' = <<pos[1], pos[2], pos[3] + 1>>
             /\ Len(tries') >= 1
             /\ \/ <<"ok", AIRFOILS[pos[1]], RE_LIST[pos[2]], ALPHA_LIST[pos[3]]>> \in log'
                \/ <<"failed", AIRFOILS[pos[1]], RE_LIST[pos[2]], ALPHA_LIST[pos[3]]>> \in log'
        ELSE apc' = "re" /\ pos'[2] = pos[2] + 1

\* C24: in the per-alpha path every alpha gets one call of the solver wrapper
\* and at most one more, made only after the first returned None; each step of
\* the loop moves to the next alpha, and the loop is always left.
C24_AtMostOneRetry ==
    /\ []TwoAttempts
    /\ [][AlphaLoopStep]_vars
    /\ (apc = "alpha") ~> (apc = "re" /\ pos[3] = 1)

\* an alpha whose first call returned None and whose retry gave the coefficients
C24_Witness ==
    /\ apc = "alpha"
    /\ pos[3] = Len(ALPHA_LIST) + 1
    /\ tries = <<None, Sample1>>
    /\ <<"ok", AIRFOILS[pos[1]], RE_LIST[pos[2]], ALPHA_LIST[Len(ALPHA_LIST)]>> \in log

\* the alphas of ALPHA_LIST
AlphaSet == {ALPHA_LIST[j] : j \in 1..Len(ALPHA_LIST)}

\* C25: every row recorded from a whole-range aseq sweep carries the alpha the
\* solver computed its coefficients at, and that alpha is one of ALPHA_LIST,
\* however many points the solver returned.
C25_SweptRowsCarryTheirAlpha ==
    /\ \A i \in 1..Len(results) :
          <<"swept", results[i].Airfoil, results[i].Re>> \in log =>
              /\ results[i].Alpha \in AlphaSet
              /\ <<"point", results[i].Airfoil, results[i].Re, results[i].Alpha,
                   results[i].Alpha>> \in log
    /\ \A e \in log : e[1] = "point" => e[4] = e[5]

----------------------------------------------------------------------------
(* Properties of repeated calls (SpecCalls)                                *)

----------------------------------------------------------------------------
(* Properties of the download cache (SpecFetch)                            *)

\* a step that is a call download_airfoil_dat(n)
DownloadOf(n) == fi >= 1 /\ fi <= Len(airfoil_list) /\ airfoil_list[fi] = n /\ fi' = fi + 1

\* what a call for the name n may do
CachedDownload(n) ==
    /\ nreq'[n] # nreq[n] => cache[n] = "absent"
    /\ cache[n] = "stored" =>
          /\ nreq' = nreq
          /\ cache'[n] = "stored"
          /\ ret' = [name |-> n, value |-> Path(n), request |-> "none"]
    /\ ret'.request \in {"connection_error", "http_error"} =>
          /\ ret'.value = None
          /\ cache'[n] = "absent"
          /\ airfoil_dict' = airfoil_dict

\* C16: a call requests the file only when it is not in the cache; once the
\* file of a name is stored every later call for the name returns its path
\* without a request; a call whose HTTP fetch fails returns None and leaves the
\* name without a file, so that a later call fetches again.
C16_RequestOnlyWhenNotCached ==
    [][\A n \in Names : DownloadOf(n) => CachedDownload(n)]_vars

\* "b" failed to download and has no file; "a" was fetched by the first of two
\* calls and served from the cache by the second
C16_Witness ==
    /\ airfoil_list = <<"b", "a", "a">>
    /\ fi = 4
    /\ nreq = [n \in Names |-> 1]
    /\ cache = [n \in Names |-> IF n = "a" THEN "stored" ELSE "absent"]
    /\ ret = [name |-> "a", value |-> Path("a"), request |-> "none"]
    /\ airfoil_dict = {<<"a", Path("a")>>}

====
